---- MODULE Spec2Model ----
(***************************************************************************)
(* Model of backend/app.py, the deepfake-detection inference service:      *)
(* the process-wide model handle, load_model / startup_event, the          *)
(* inference function predict_image, and the three HTTP handlers.          *)
(*                                                                         *)
(* Probabilities are fixed-point numbers in units of 1/Scale, one decimal  *)
(* finer than the four decimals the service reports.  The network is a     *)
(* black box; its two logits are represented by exp(l_i - max(l)) in       *)
(* units of 1/ExpOne, the first step of a softmax, which integers cannot   *)
(* compute.  The normalisation, the decision rule and the rounding are     *)
(* computed as the code computes them.                                     *)
(*                                                                         *)
(* The handlers and predict_image are module-level functions: they can run *)
(* in every load state, before startup_event and after a failed one, as    *)
(* they do for a caller that imports the module or for a test client that  *)
(* does not run the startup hook.  A request is one coroutine; the only    *)
(* point where another one can run in between is `await file.read()`.      *)
(***************************************************************************)
EXTENDS Integers, Sequences, FiniteSets, TLC

VARIABLES
    checkpoint,   \* the file at MODEL_PATH, as the environment provides it
    model,        \* the module-level global `model`
    startup,      \* position of startup_event / load_model
    req,          \* the HTTP requests, each with its position and response
    outputs,      \* the pipeline alone: the network outputs given to the softmax
    result        \* the pipeline alone: the result built from them

vars == <<checkpoint, model, startup, req, outputs, result>>

----------------------------------------------------------------------------
(* Bounds *)

\* number of HTTP requests
MaxReq == 2

\* resolution of the network outputs: exp(0) = 1.0
ExpOne == 8000

Requests == 1..MaxReq

----------------------------------------------------------------------------
(* Numbers *)

\* the 4 of round(x, 4)
Decimals == 4

Scale == 10 ^ (Decimals + 1)

\* one unit of the last reported decimal
Ulp == Scale \div (10 ^ Decimals)

\* the literal 0.5 of `fake_prob > 0.5`
Threshold == Scale \div 2

\* n / d rounded to the nearest integer, ties to the even one (d > 0, n >= 0)
DivRound(n, d) ==
    LET q == n \div d
        r == n % d
    IN  IF 2 * r > d THEN q + 1
        ELSE IF 2 * r < d THEN q
        ELSE q + (q % 2)

\* The quotient n / d (a probability, 0 <= n <= d) as the float the
\* division yields, in units of 1/Scale.  A float keeps a fixed number of
\* significant bits, so its grid from one half up is twice as coarse as the
\* grid below one half: here two units and one unit.
FloatDiv(n, d) ==
    IF 2 * n >= d
        THEN 2 * DivRound(n * Scale, 2 * d)
        ELSE DivRound(n * Scale, d)

\* round(x, 3), one decimal short
Round3(x) ==
    LET u == 10 * Ulp
        q == x \div u
        r == x % u
    IN  IF 2 * r < u THEN q * u
        ELSE IF 2 * r > u THEN (q + 1) * u
        ELSE IF q % 2 = 0 THEN q * u
        ELSE (q + 1) * u

\* Python's round(x, 4): to the nearest multiple of Ulp, ties to the even one
Round4(x) ==
    LET q == x \div Ulp
        r == x % Ulp
    IN  IF 2 * r < Ulp THEN q * Ulp
        ELSE IF 2 * r > Ulp THEN (q + 1) * Ulp
        ELSE IF q % 2 = 0 THEN q * Ulp
        ELSE (q + 1) * Ulp

----------------------------------------------------------------------------
(* The model handle and load_model *)

\* model = None
None == [kind |-> "None"]

\* timm.create_model(...): a fresh nn.Module, randomly initialised and in
\* training mode until eval() is called
create_model == [kind |-> "efficientnet_b0", weights |-> "random", training |-> TRUE]

Checkpoints == {"absent", "unreadable", "mismatch", "valid"}

\* load_model without its model.eval(): the network stays in training mode
load_model_no_eval(m, ckpt) ==
    IF ckpt = "absent" THEN [model |-> m, raised |-> "Model file not found"]
    ELSE IF ckpt = "unreadable"
        THEN [model |-> create_model, raised |-> "torch.load failed"]
    ELSE IF ckpt = "mismatch"
        THEN [model |-> [create_model EXCEPT !.weights = "partial"],
              raised |-> "Error(s) in loading state_dict"]
    ELSE [model |-> [create_model EXCEPT !.weights = "checkpoint"],
          raised |-> ""]

\* load_model run on handle m with the checkpoint file ckpt: the handle it
\* leaves in the global, and the exception it re-raised ("" = returned True)
load_model(m, ckpt) ==
    IF ckpt = "absent"
        \* line 42-43: raised before the global is assigned
        THEN [model |-> m, raised |-> "Model file not found"]
    ELSE IF ckpt = "unreadable"
        \* line 45 has assigned the global; line 48 raises
        THEN [model |-> create_model, raised |-> "torch.load failed"]
    ELSE IF ckpt = "mismatch"
        \* line 45 has assigned the global; line 49 raises
        THEN [model |-> [create_model EXCEPT !.weights = "partial"],
              raised |-> "Error(s) in loading state_dict"]
    ELSE \* lines 45-55
         [model |-> [create_model EXCEPT !.weights = "checkpoint",
                                         !.training = FALSE],
          raised |-> ""]

----------------------------------------------------------------------------
(* Images, preprocessing and the network *)

\* Upload bodies: bytes that are no image at all, an image file cut short
\* (its header parses, its pixel data does not), and three whole images
Garbage == [format |-> "none", mode |-> "", pix |-> 0, intact |-> FALSE]

Contents ==
    { Garbage,
      [format |-> "png", mode |-> "RGB",  pix |-> 1, intact |-> FALSE],
      [format |-> "png", mode |-> "RGB",  pix |-> 1, intact |-> TRUE],
      [format |-> "png", mode |-> "L",    pix |-> 2, intact |-> TRUE],
      [format |-> "png", mode |-> "RGBA", pix |-> 3, intact |-> TRUE] }

\* Image.open(io.BytesIO(contents)): reads the header only
ImageOpen(contents) ==
    IF contents.format = "none"
        THEN [ok |-> FALSE, error |-> "cannot identify image file",
              image |-> [mode |-> "", pix |-> 0, intact |-> FALSE]]
        ELSE [ok |-> TRUE, error |-> "",
              image |-> [mode |-> contents.mode, pix |-> contents.pix,
                         intact |-> contents.intact]]

\* image.convert("RGB")
ConvertRGB(image) == [image EXCEPT !.mode = "RGB"]

IMAGE_SIZE == <<224, 224>>

\* preprocess(image).unsqueeze(0).to(DEVICE)
Preprocess(image) ==
    [shape |-> <<1, 3>> \o IMAGE_SIZE, data |-> image.pix]

\* The network outputs the softmax can be given: the larger logit maps to
\* ExpOne, the other one to anything from 0 (underflow) to ExpOne
AllOutputs ==
    {<<ExpOne, w>> : w \in 0..ExpOne} \cup {<<w, ExpOne>> : w \in 0..ExpOne}

\* The trained network on the three pictures: a tie, fake by a hair, real
CheckpointNet(data) ==
    IF data = 1 THEN <<ExpOne, ExpOne>>
    ELSE IF data = 2 THEN <<ExpOne - 1, ExpOne>>
    ELSE <<ExpOne, ExpOne \div 4>>

SomeOutputs == {CheckpointNet(d) : d \in 1..3} \cup {<<1, ExpOne>>}

\* model(img_tensor) under torch.no_grad(): in eval mode a function of the
\* tensor and the weights; in training mode dropout makes it vary from
\* call to call, and without the checkpoint the weights are arbitrary
Forward(m, tensor) ==
    IF m.training \/ m.weights # "checkpoint"
        THEN SomeOutputs
        ELSE {CheckpointNet(tensor.data)}

\* torch.softmax(outputs, dim=1): exp (already in `out`) and normalisation
Softmax(out) ==
    LET s == out[1] + out[2]
    IN  <<FloatDiv(out[1], s), FloatDiv(out[2], s)>>

----------------------------------------------------------------------------
(* predict_image *)

NoResult == [is_fake |-> FALSE, confidence |-> -1, label |-> "",
             probabilities |-> [real |-> -1, fake |-> -1]]

\* the decision with >= for >, and the decision taken on the rounded value
DecideAtLeast(fake_prob) == fake_prob >= Threshold

DecideRounded(fake_prob) == Round4(fake_prob) > Threshold

\* is_fake = fake_prob > 0.5
Decide(fake_prob) == fake_prob > Threshold

\* the confidence as the fake probability whatever the label
ConfidenceFake(is_fake, real_prob, fake_prob) == fake_prob

\* confidence = fake_prob if is_fake else real_prob
Confidence(is_fake, real_prob, fake_prob) ==
    IF is_fake THEN fake_prob ELSE real_prob

\* label = "FAKE" if is_fake else "REAL"
Label(is_fake) == IF is_fake THEN "FAKE" ELSE "REAL"

\* lines 97-113: index 0 = real, index 1 = fake
PostProcess(probabilities) ==
    LET fake_prob == probabilities[2]
        real_prob == probabilities[1]
        is_fake == Decide(fake_prob)
    IN  [is_fake |-> is_fake,
         confidence |-> Round4(Confidence(is_fake, real_prob, fake_prob)),
         label |-> Label(is_fake),
         probabilities |-> [real |-> Round4(real_prob),
                            fake |-> Round4(fake_prob)]]

Raise(error, work) ==
    [ok |-> FALSE, error |-> error, work |-> work, result |-> NoResult]

\* predict_image with the handle tested only where it is first used, after
\* the conversion and the preprocessing
PredictImageLateCheck(m, image) ==
    LET pre == (IF image.mode # "RGB" THEN <<"convert">> ELSE <<>>)
                    \o <<"preprocess">>
    IN  IF ~image.intact
            THEN {Raise("image file is truncated",
                        IF image.mode # "RGB" THEN <<"convert">> ELSE <<"preprocess">>)}
        ELSE IF m = None
            THEN {Raise("Model not loaded", pre)}
        ELSE {[ok |-> TRUE, error |-> "", work |-> pre \o <<"forward", "softmax">>,
               result |-> PostProcess(Softmax(out))]
                    : out \in Forward(m, Preprocess(ConvertRGB(image)))}

\* predict_image(image) with the global handle m: the set of its possible
\* outcomes, each with the steps it went through
PredictImage(m, image) ==
    IF m = None
        THEN {Raise("Model not loaded", <<>>)}
    ELSE IF ~image.intact
        \* the pixel data is decoded by the first step that needs it
        THEN {Raise("image file is truncated",
                    IF image.mode # "RGB" THEN <<"convert">> ELSE <<"preprocess">>)}
    ELSE LET rgb == IF image.mode # "RGB" THEN ConvertRGB(image) ELSE image
             img_tensor == Preprocess(rgb)
             work == (IF image.mode # "RGB" THEN <<"convert">> ELSE <<>>)
                        \o <<"preprocess", "forward", "softmax">>
         IN  {[ok |-> TRUE, error |-> "", work |-> work,
               result |-> PostProcess(Softmax(out))] : out \in Forward(m, img_tensor)}

----------------------------------------------------------------------------
(* The HTTP handlers *)

\* file.content_type: None, or a string (a sequence of characters)
NoContentType == [present |-> FALSE, text |-> <<>>]

Str(text) == [present |-> TRUE, text |-> text]

ContentTypes ==
    { NoContentType,
      Str(<<>>),
      Str(<<"t","e","x","t","/","p","l","a","i","n">>),
      Str(<<"i","m","a","g","e">>),
      Str(<<"i","m","a","g","e","/","p","n","g">>) }

\* s.startswith(prefix)
StartsWith(s, prefix) ==
    /\ Len(s) >= Len(prefix)
    /\ SubSeq(s, 1, Len(prefix)) = prefix

\* the test letting a missing content type through
IsImageContentTypeOrMissing(ct) ==
    \/ ~ct.present
    \/ StartsWith(ct.text, <<"i","m","a","g","e","/">>)

\* the negation of line 175:
\* not file.content_type or not file.content_type.startswith("image/")
IsImageContentType(ct) ==
    /\ ct.present
    /\ ct.text # <<>>
    /\ StartsWith(ct.text, <<"i","m","a","g","e","/">>)

NoCall == [made |-> FALSE, handle |-> None, ready |-> FALSE,
           outcome |-> Raise("", <<>>)]

NoResponse == [status |-> 0, detail |-> <<>>, body |-> [success |-> FALSE]]

NewRequest ==
    [pc |-> "new", handler |-> "", content_type |-> NoContentType,
     contents |-> Garbage, read |-> FALSE, call |-> NoCall,
     response |-> NoResponse]

\* GET /
RootResponse ==
    [status |-> 200, detail |-> <<>>,
     body |-> [service |-> "Deepfake Detection API", status |-> "running",
               model |-> "EfficientNet-B0 (timm)"]]

\* GET /health
HealthResponse(m) ==
    [status |-> 200, detail |-> <<>>,
     body |-> [status |-> "healthy", model_loaded |-> m # None,
               device |-> "cpu"]]

\* line 176-179
BadRequest ==
    [status |-> 400, detail |-> <<"File must be an image (JPEG, PNG, etc.)">>,
     body |-> [success |-> FALSE]]

\* the handler swallowing the exception and answering 200 with what it has
PredictResponseSwallow(error, res) ==
    [status |-> 200, detail |-> <<>>,
     body |-> [success |-> (error = ""), filename |-> "upload",
               is_fake |-> res.is_fake, confidence |-> res.confidence,
               label |-> res.label, probabilities |-> res.probabilities]]

\* lines 189-199: the response of POST /predict once the try block has run;
\* error is the text of the exception it caught, "" if none
PredictResponse(error, res) ==
    IF error # ""
        THEN [status |-> 500, detail |-> <<"Error processing image: ", error>>,
              body |-> [success |-> FALSE]]
        ELSE [status |-> 200, detail |-> <<>>,
              body |-> [success |-> TRUE, filename |-> "upload",
                        is_fake |-> res.is_fake, confidence |-> res.confidence,
                        label |-> res.label, probabilities |-> res.probabilities]]

----------------------------------------------------------------------------
(* Actions of the service *)

\* startup_event: load_model(), once, its exception propagating
startup_event ==
    /\ startup = "pending"
    /\ LET l == load_model(model, checkpoint)
       IN  /\ model' = l.model
           /\ startup' = IF l.raised = "" THEN "ready" ELSE "failed"
    /\ UNCHANGED <<checkpoint, req, outputs, result>>

root(r) ==
    /\ req[r].pc = "new"
    /\ req' = [req EXCEPT ![r] = [@ EXCEPT !.pc = "done", !.handler = "root",
                                           !.response = RootResponse]]
    /\ UNCHANGED <<checkpoint, model, startup, outputs, result>>

health_check(r) ==
    /\ req[r].pc = "new"
    /\ req' = [req EXCEPT ![r] = [@ EXCEPT !.pc = "done", !.handler = "health",
                                           !.response = HealthResponse(model)]]
    /\ UNCHANGED <<checkpoint, model, startup, outputs, result>>

\* POST /predict up to `await file.read()`
predict_validate(r, ct, contents) ==
    /\ req[r].pc = "new"
    /\ req' = [req EXCEPT ![r] =
            IF ~IsImageContentType(ct)
                THEN [@ EXCEPT !.pc = "done", !.handler = "predict",
                               !.content_type = ct, !.contents = contents,
                               !.response = BadRequest]
                ELSE [@ EXCEPT !.pc = "reading", !.handler = "predict",
                               !.content_type = ct, !.contents = contents,
                               !.read = TRUE]]
    /\ UNCHANGED <<checkpoint, model, startup, outputs, result>>

\* the same, dropping the handle when the request fails
predict_process_reset(r) ==
    /\ req[r].pc = "reading"
    /\ LET opened == ImageOpen(req[r].contents)
       IN  IF ~opened.ok
             THEN /\ req' = [req EXCEPT ![r] =
                        [@ EXCEPT !.pc = "done",
                                  !.response = PredictResponse(opened.error, NoResult)]]
                  /\ model' = None
             ELSE \E o \in PredictImage(model, opened.image) :
                    /\ req' = [req EXCEPT ![r] =
                        [@ EXCEPT !.pc = "done",
                                  !.call = [made |-> TRUE, handle |-> model,
                                            ready |-> (startup = "ready"),
                                            outcome |-> o],
                                  !.response = PredictResponse(o.error, o.result)]]
                    /\ model' = IF o.ok THEN model ELSE None
    /\ UNCHANGED <<checkpoint, startup, outputs, result>>

\* POST /predict from the end of the read to the response
predict_process(r) ==
    /\ req[r].pc = "reading"
    /\ LET opened == ImageOpen(req[r].contents)
       IN  IF ~opened.ok
             THEN req' = [req EXCEPT ![r] =
                        [@ EXCEPT !.pc = "done",
                                  !.response = PredictResponse(opened.error, NoResult)]]
             ELSE \E o \in PredictImage(model, opened.image) :
                    req' = [req EXCEPT ![r] =
                        [@ EXCEPT !.pc = "done",
                                  !.call = [made |-> TRUE, handle |-> model,
                                            ready |-> (startup = "ready"),
                                            outcome |-> o],
                                  !.response = PredictResponse(o.error, o.result)]]
    /\ UNCHANGED <<checkpoint, model, startup, outputs, result>>

Init ==
    /\ checkpoint \in Checkpoints
    /\ model = None
    /\ startup = "pending"
    /\ req = [r \in Requests |-> NewRequest]
    /\ outputs = <<ExpOne, ExpOne>>
    /\ result = NoResult

Next ==
    \/ startup_event
    \/ \E r \in Requests : root(r)
    \/ \E r \in Requests : health_check(r)
    \/ \E r \in Requests, ct \in ContentTypes, contents \in Contents :
            predict_validate(r, ct, contents)
    \/ \E r \in Requests : predict_process(r)

Spec == Init /\ [][Next]_vars

----------------------------------------------------------------------------
(* The inference pipeline on its own: lines 95-113 on every network output *)

infer ==
    /\ result = NoResult
    /\ result' = PostProcess(Softmax(outputs))
    /\ UNCHANGED <<checkpoint, model, startup, req, outputs>>

InitPipeline ==
    /\ checkpoint = "valid"
    /\ model = load_model(None, "valid").model
    /\ startup = "ready"
    /\ req = [r \in Requests |-> NewRequest]
    /\ outputs \in AllOutputs
    /\ result = NoResult

NextPipeline == infer

SpecPipeline == InitPipeline /\ [][NextPipeline]_vars

----------------------------------------------------------------------------
(* Properties of the service, under Spec *)

\* the calls of predict_image the requests have made
Called == {r \in Requests : req[r].call.made}

\* a declared content type that is missing or does not start with "image/"
NotAnImageType(ct) ==
    \/ ~ct.present
    \/ Len(ct.text) < 6
    \/ \E i \in 1..6 : ct.text[i] # <<"i","m","a","g","e","/">>[i]

\* C1: predict_image called while the handle is None raises "Model not
\* loaded" having done no conversion, preprocessing or forward pass; called
\* after load_model has completed it never raises that error and returns a
\* complete result for every image whose data decodes.
C1_NotLoadedFailsFast ==
    \A r \in Called :
        LET c == req[r].call
        IN  /\ c.handle = None =>
                    /\ ~c.outcome.ok
                    /\ c.outcome.error = "Model not loaded"
                    /\ c.outcome.work = <<>>
                    /\ c.outcome.result = NoResult
            /\ c.ready =>
                    /\ c.outcome.error # "Model not loaded"
                    /\ req[r].contents.intact =>
                            /\ c.outcome.ok
                            /\ c.outcome.result # NoResult
                            /\ c.outcome.result.label \in {"REAL", "FAKE"}

C1_Witness ==
    \E r, q \in Called :
        /\ req[r].call.handle = None
        /\ req[r].call.outcome.error = "Model not loaded"
        /\ req[q].call.ready
        /\ req[q].call.outcome.ok

\* C2: in every reachable state GET /health reports model_loaded = true
\* if and only if load_model has completed successfully.
C2_HealthReflectsLoad ==
    HealthResponse(model).body.model_loaded <=> (startup = "ready")

\* C3: when load_model fails (its exception reaching startup) the handle is
\* still uninitialized, and a predict_image call made afterwards fails with
\* "Model not loaded" without a forward pass.
C3_FailedLoadLeavesNoHandle ==
    /\ startup = "failed" => model = None
    /\ \A r \in Called :
            ~req[r].call.ready =>
                /\ ~req[r].call.outcome.ok
                /\ \A i \in 1..Len(req[r].call.outcome.work) :
                        req[r].call.outcome.work[i] # "forward"

\* C6: a POST /predict whose content type is missing or does not start
\* with "image/" is answered 400, its upload never read and predict_image
\* never called, whatever the load state.
C6_NonImageRejectedFirst ==
    \A r \in Requests :
        (req[r].handler = "predict" /\ NotAnImageType(req[r].content_type)) =>
            /\ req[r].pc = "done"
            /\ req[r].response.status = 400
            /\ ~req[r].read
            /\ ~req[r].call.made

C6_Witness ==
    \E r, q \in Requests :
        /\ req[r].handler = "predict" /\ ~req[r].content_type.present
        /\ req[r].response.status = 400
        /\ startup = "ready"
        /\ req[q].handler = "predict" /\ req[q].content_type.present
        /\ NotAnImageType(req[q].content_type)
        /\ req[q].response.status = 400

\* C7: for a POST /predict with an image content type, a failure in decode,
\* preprocessing or inference is answered 500 with the failure's text in
\* the message and no result fields; 200 is answered only with the complete
\* result predict_image returned.
C7_FailuresAre500 ==
    \A r \in Requests :
        (req[r].handler = "predict" /\ req[r].pc = "done"
                /\ ~NotAnImageType(req[r].content_type)) =>
            LET c == req[r].call
                resp == req[r].response
                opened == req[r].contents.format # "none"
                failure == IF ~opened THEN "cannot identify image file"
                           ELSE c.outcome.error
            IN  /\ resp.status \in {200, 500}
                /\ c.made <=> opened
                /\ (failure # "") =>
                        /\ resp.status = 500
                        /\ resp.detail = <<"Error processing image: ", failure>>
                        /\ resp.body = [success |-> FALSE]
                /\ (c.made /\ c.handle = None) =>
                        /\ resp.status = 500
                        /\ resp.detail[2] = "Model not loaded"
                /\ resp.status = 200 =>
                        /\ c.made /\ c.outcome.ok
                        /\ resp.body.success
                        /\ resp.body.is_fake = c.outcome.result.is_fake
                        /\ resp.body.confidence = c.outcome.result.confidence
                        /\ resp.body.label = c.outcome.result.label
                        /\ resp.body.probabilities = c.outcome.result.probabilities
                        /\ c.outcome.result # NoResult

C7_Witness ==
    \E r, q \in Requests :
        /\ req[r].response.status = 500
        /\ req[r].call.made
        /\ req[r].response.detail[2] = "Model not loaded"
        /\ req[q].response.status = 500
        /\ req[q].contents = Garbage

\* C8: the handle is written by load_model at startup only: no step taken
\* once startup is over, and no step of any request, changes it; and a step
\* of one request leaves every other request as it was.
C8_HandleWrittenOnce ==
    [][ /\ (startup # "pending" => model' = model)
        /\ (req' # req => model' = model)
        /\ \A r \in Requests :
                req'[r] # req[r] =>
                    \A q \in Requests \ {r} : req'[q] = req[q]
      ]_vars

C8_Witness ==
    \E r, q \in Requests :
        /\ startup = "ready"
        /\ model = load_model(None, "valid").model
        /\ req[r].response.status = 500
        /\ req[r].call.made
        /\ req[q].pc = "reading"

----------------------------------------------------------------------------
(* Properties of the pipeline, under SpecPipeline *)

Inferred == result # NoResult

\* the two probabilities the softmax produced from the network outputs
RealProb == Softmax(outputs)[1]

FakeProb == Softmax(outputs)[2]

\* C4: is_fake is true exactly when the unrounded fake probability exceeds
\* 0.5: exactly 0.5 gives is_fake = false and label "REAL", a value just
\* above 0.5 that rounds to 0.5 still gives is_fake = true, and the label
\* is "FAKE" if and only if is_fake.
C4_StrictThreshold ==
    Inferred =>
        /\ result.is_fake <=> (2 * FakeProb > Scale)
        /\ (2 * FakeProb = Scale) => (~result.is_fake /\ result.label = "REAL")
        /\ (2 * FakeProb > Scale /\ 2 * result.probabilities.fake = Scale)
                => result.is_fake
        /\ result.label \in {"REAL", "FAKE"}
        /\ (result.label = "FAKE") <=> result.is_fake

C4_Witness ==
    /\ Inferred
    /\ 2 * FakeProb > Scale
    /\ 2 * result.probabilities.fake = Scale
    /\ result.is_fake
    /\ result.label = "FAKE"

\* C5: confidence is the rounded probability of the class the label names:
\* probabilities.fake when the label is "FAKE", probabilities.real when it
\* is "REAL".
C5_ConfidenceOfLabel ==
    Inferred =>
        /\ result.label = "FAKE" => result.confidence = result.probabilities.fake
        /\ result.label = "REAL" => result.confidence = result.probabilities.real

C5_Witness ==
    /\ Inferred
    /\ result.label = "REAL"
    /\ result.probabilities.real # result.probabilities.fake
    /\ result.confidence = result.probabilities.real

\* C9: each reported probability is the softmax probability rounded to four
\* decimals, their sum is within 0.0001 of 1, and confidence is in [0, 1].
C9_ProbabilitiesSumToOne ==
    Inferred =>
        LET real == result.probabilities.real
            fake == result.probabilities.fake
        IN  /\ real % Ulp = 0 /\ fake % Ulp = 0
            /\ 2 * (real - RealProb) \in -Ulp..Ulp
            /\ 2 * (fake - FakeProb) \in -Ulp..Ulp
            /\ real + fake - Scale \in -Ulp..Ulp
            /\ result.confidence \in 0..Scale

C9_Witness ==
    /\ Inferred
    /\ result.probabilities.real + result.probabilities.fake # Scale

====
